---- MODULE Spec2Model ----
(***************************************************************************)
(* A model of uvw's util.hpp: the Flags<E> bitmask wrapper and the         *)
(* details::address resolvers over the IpTraits table.                     *)
(***************************************************************************)
EXTENDS Integers, Sequences, FiniteSets, TLC

VARIABLES
    fs,        \* the Flags<E> object the last operation produced
    lastOp,    \* the last Flags operation: [op, lhs, arg]
    prevOp,    \* the operation before it (the one that produced lastOp.lhs)
    asBool,    \* operator bool() of fs
    asType,    \* operator Type() of fs
    endian,    \* byte order of the host the build targets
    traits,    \* the IpTraits table (static const members)
    input,     \* per call: the family tag I and what the accessor f does
    pc,        \* per call: position in address(f, handle)
    ssto,      \* per call: sockaddr_storage ssto
    len,       \* per call: int len
    err,       \* per call: int err of address(f, handle)
    addr,      \* per call: Addr addr of address(f, handle)
    pair,      \* per call: std::pair addr of address(aptr, len)
    name,      \* per buffer: char name[len]
    ierr,      \* per call: int err of address(aptr, len)
    result,    \* per call: the Addr returned to the caller
    obs        \* per call: what the callees were handed (lengths, call counts)

vars == <<fs, lastOp, prevOp, asBool, asType,
          endian, traits, input, pc, ssto, len, err, addr, pair, name, ierr, result, obs>>

(***************************************************************************)
(* Flags<E>                                                                *)
(***************************************************************************)

\* Width (in bits) of std::underlying_type_t<E> in the model.
FlagBits == 3

\* The values of InnerType, as bit patterns.
InnerTypeValues == 0 .. (2 ^ FlagBits - 1)

\* The values an object of the enumeration E can hold: E is identified by its
\* underlying bit pattern.
EnumValues == InnerTypeValues

\* C++ builtin x & y on InnerType.
RECURSIVE BitAnd(_, _)
BitAnd(x, y) ==
    IF x = 0 \/ y = 0 THEN 0
    ELSE (IF x % 2 = 1 /\ y % 2 = 1 THEN 1 ELSE 0) + 2 * BitAnd(x \div 2, y \div 2)

\* C++ builtin x | y on InnerType.
RECURSIVE BitOr(_, _)
BitOr(x, y) ==
    IF x = 0 THEN y
    ELSE IF y = 0 THEN x
    ELSE (IF x % 2 = 1 \/ y % 2 = 1 THEN 1 ELSE 0) + 2 * BitOr(x \div 2, y \div 2)

\* static_cast<InnerType>(flag): the enumerator's own bit pattern.
toInnerType(flag) == flag

\* Flags(E flag)
FlagsFromEnum(flag) == [flags |-> toInnerType(flag)]

FlagsFromTypeMasked(f) == [flags |-> f % (2 ^ (FlagBits - 1))]

\* Flags(Type f)
FlagsFromType(f) == [flags |-> f]

\* Flags()
FlagsDefault == [flags |-> 0]

\* operator|(const Flags &)
OrFlags(s, f) == FlagsFromType(BitOr(s.flags, f.flags))

\* operator|(E)
OrEnum(s, flag) == FlagsFromType(BitOr(s.flags, toInnerType(flag)))

\* operator&(const Flags &)
AndFlags(s, f) == FlagsFromType(BitAnd(s.flags, f.flags))

AndEnumAsOr(s, flag) == FlagsFromType(BitOr(s.flags, toInnerType(flag)))

\* operator&(E)
AndEnum(s, flag) == FlagsFromType(BitAnd(s.flags, toInnerType(flag)))

ToBoolLowBit(s) == s.flags % 2 = 1

\* operator bool()
ToBool(s) == ~(s.flags = 0)

\* operator Type()
ToType(s) == s.flags

AllFlags == [flags : InnerTypeValues]

NoOp == [op |-> "none", lhs |-> FlagsDefault, arg |-> 0]

\* What is recorded of an operation that produced the object s.
Observe(s, op, lhs, arg) ==
    /\ prevOp' = lastOp
    /\ lastOp' = [op |-> op, lhs |-> lhs, arg |-> arg]
    /\ asBool' = ToBool(s)
    /\ asType' = ToType(s)
    /\ UNCHANGED <<endian, traits, input, pc, ssto, len, err, addr, pair, name, ierr, result, obs>>

FlagsInit ==
    /\ fs = FlagsDefault
    /\ lastOp = [op |-> "default", lhs |-> FlagsDefault, arg |-> 0]
    /\ prevOp = NoOp
    /\ asBool = ToBool(FlagsDefault)
    /\ asType = ToType(FlagsDefault)

ConstructDefault ==
    /\ fs' = FlagsDefault
    /\ Observe(fs', "default", FlagsDefault, 0)

ConstructEnum ==
    \E a \in EnumValues :
        /\ fs' = FlagsFromEnum(a)
        /\ Observe(fs', "ctor_e", FlagsDefault, a)

ConstructRaw ==
    \E r \in InnerTypeValues :
        /\ fs' = FlagsFromType(r)
        /\ Observe(fs', "ctor_raw", FlagsDefault, r)

\* Flags(static_cast<Type>(fs)): the raw value handed out and wrapped again.
Reconstruct ==
    /\ fs' = FlagsFromType(ToType(fs))
    /\ Observe(fs', "rebuild", fs, ToType(fs))

CombineFlags ==
    \E f \in AllFlags :
        /\ fs' = OrFlags(fs, f)
        /\ Observe(fs', "or_f", fs, f.flags)

CombineEnum ==
    \E b \in EnumValues :
        /\ fs' = OrEnum(fs, b)
        /\ Observe(fs', "or_e", fs, b)

IntersectFlags ==
    \E f \in AllFlags :
        /\ fs' = AndFlags(fs, f)
        /\ Observe(fs', "and_f", fs, f.flags)

IntersectEnum ==
    \E b \in EnumValues :
        /\ fs' = AndEnum(fs, b)
        /\ Observe(fs', "and_e", fs, b)

FlagsNext ==
    \/ ConstructDefault
    \/ ConstructEnum
    \/ ConstructRaw
    \/ Reconstruct
    \/ CombineFlags
    \/ CombineEnum
    \/ IntersectFlags
    \/ IntersectEnum


(***************************************************************************)
(* Platform: bytes, byte order, C strings                                  *)
(***************************************************************************)

Zeros(n) == [i \in 1 .. n |-> 0]

\* The bytes of object b at byte offset off (0-based), w bytes wide.
BytesAt(b, off, w) == SubSeq(b, off + 1, off + w)

\* b with the bytes at offset off replaced by the bytes v.
WithBytes(b, off, v) ==
    [i \in 1 .. Len(b) |-> IF i > off /\ i <= off + Len(v) THEN v[i - off] ELSE b[i]]

\* The object representation of the uint16_t value v on the host.
StoreU16(e, v) ==
    IF e = "little" THEN <<v % 256, v \div 256>> ELSE <<v \div 256, v % 256>>

\* The uint16_t value the host reads from two bytes of memory.
LoadU16(e, b) ==
    IF e = "little" THEN b[1] + 256 * b[2] ELSE 256 * b[1] + b[2]

\* htons(v)
Htons(e, v) == IF e = "little" THEN (v % 256) * 256 + (v \div 256) ELSE v

NtohsOmitted(e, v) == v

\* ntohs(v)
Ntohs(e, v) == IF e = "little" THEN (v % 256) * 256 + (v \div 256) ELSE v

\* Text is a sequence of characters; NUL is the terminator '\0'.
NUL == "NUL"

\* The value of a char buffer that was never written.
Indeterminate == "?"

DigitChar == <<"0", "1", "2", "3", "4", "5", "6", "7", "8", "9">>

HexChar == <<"0", "1", "2", "3", "4", "5", "6", "7", "8", "9", "a", "b", "c", "d", "e", "f">>

\* strchr(digits, ch) - digits, or -1 when ch is no character of digits.
IndexOf(digits, ch) ==
    IF \E i \in 1 .. Len(digits) : digits[i] = ch
    THEN (CHOOSE i \in 1 .. Len(digits) : digits[i] = ch) - 1
    ELSE -1

\* printf("%u", n)
RECURSIVE Dec(_)
Dec(n) == IF n < 10 THEN <<DigitChar[n + 1]>> ELSE Dec(n \div 10) \o <<DigitChar[(n % 10) + 1]>>

\* printf("%x", n)
RECURSIVE Hex(_)
Hex(n) == IF n < 16 THEN <<HexChar[n + 1]>> ELSE Hex(n \div 16) \o <<HexChar[(n % 16) + 1]>>

\* std::string{name}: the characters of the buffer before its first NUL.
RECURSIVE StringOf(_)
StringOf(buf) ==
    IF buf = <<>> \/ Head(buf) = NUL THEN <<>> ELSE <<Head(buf)>> \o StringOf(Tail(buf))

\* strncpy(dst, tmp, size); dst[size - 1] = '\0', for strlen(tmp) < size.
Strncpy(tmp, size) == [i \in 1 .. size |-> IF i <= Len(tmp) THEN tmp[i] ELSE NUL]

(***************************************************************************)
(* libuv: the primitives the IpTraits table binds                          *)
(***************************************************************************)

UV_EINVAL == [status |-> -22]

UV_ENOSPC == [status |-> -28]

AF == [IPv4 |-> 2, IPv6 |-> 10]

\* inet_pton4: dotted decimal, four octets, no leading zero, each at most 255.
\* tmp holds the octets up to and including *tp.
RECURSIVE inet_pton4_loop(_, _, _, _, _)
inet_pton4_loop(src, i, tmp, saw_digit, octets) ==
    IF i > Len(src)
    THEN IF octets < 4 THEN UV_EINVAL ELSE [status |-> 0, bytes |-> tmp]
    ELSE LET ch == src[i]
             d == IndexOf(DigitChar, ch)
             tp == tmp[Len(tmp)]
             nw == tp * 10 + d
         IN  IF d >= 0
             THEN IF saw_digit /\ tp = 0 THEN UV_EINVAL
                  ELSE IF nw > 255 THEN UV_EINVAL
                  ELSE IF ~saw_digit /\ octets + 1 > 4 THEN UV_EINVAL
                  ELSE inet_pton4_loop(src, i + 1, [tmp EXCEPT ![Len(tmp)] = nw], TRUE,
                                       IF saw_digit THEN octets ELSE octets + 1)
             ELSE IF ch = "." /\ saw_digit
             THEN IF octets = 4 THEN UV_EINVAL
                  ELSE inet_pton4_loop(src, i + 1, Append(tmp, 0), FALSE, octets)
             ELSE UV_EINVAL

inet_pton4(src) == inet_pton4_loop(src, 1, <<0>>, FALSE, 0)

\* The text inet_ntop4 formats: "%u.%u.%u.%u".
Fmt4(a) == Dec(a[1]) \o <<".">> \o Dec(a[2]) \o <<".">> \o Dec(a[3]) \o <<".">> \o Dec(a[4])

\* inet_ntop4(src, dst, size): the status and the buffer dst afterwards.
inet_ntop4(a, dst, size) ==
    IF Len(Fmt4(a)) >= size
    THEN [status |-> UV_ENOSPC.status, dst |-> dst]
    ELSE [status |-> 0, dst |-> Strncpy(Fmt4(a), size)]

\* uv_ip4_addr(ip, port, &addr): the status and the sockaddr_in afterwards.
uv_ip4_addr(e, ip, port) ==
    LET sa0 == WithBytes(WithBytes(Zeros(16), 0, StoreU16(e, AF.IPv4)),
                         2, StoreU16(e, Htons(e, port % 65536)))
        r == inet_pton4(ip)
    IN  IF r.status = 0
        THEN [status |-> 0, sa |-> WithBytes(sa0, 4, r.bytes)]
        ELSE [status |-> r.status, sa |-> sa0]

\* uv_ip4_name(src, dst, size)
uv_ip4_name(sa, dst, size) == inet_ntop4(BytesAt(sa, 4, 4), dst, size)


HexCharUpper == <<"0", "1", "2", "3", "4", "5", "6", "7", "8", "9", "A", "B", "C", "D", "E", "F">>

\* strchr over xdigits_l, then xdigits_u.
HexIndex(ch) == IF IndexOf(HexChar, ch) >= 0 THEN IndexOf(HexChar, ch) ELSE IndexOf(HexCharUpper, ch)

\* The end of inet_pton6: the last group is stored and the "::" gap is opened.
\* words are the 16-bit groups written so far, colonp the number of groups
\* written when "::" was seen (-1: none).
inet_pton6_end(words, colonp, seen, val) ==
    IF seen > 0 /\ Len(words) + 1 > 8 THEN UV_EINVAL
    ELSE LET w == IF seen > 0 THEN Append(words, val) ELSE words
         IN  IF colonp >= 0
             THEN IF Len(w) = 8 THEN UV_EINVAL
                  ELSE [status |-> 0,
                        words |-> SubSeq(w, 1, colonp) \o Zeros(8 - Len(w))
                                      \o SubSeq(w, colonp + 1, Len(w))]
             ELSE IF Len(w) # 8 THEN UV_EINVAL
             ELSE [status |-> 0, words |-> w]

\* The loop of inet_pton6 over the characters of src from index i.
RECURSIVE inet_pton6_loop(_, _, _, _, _, _, _)
inet_pton6_loop(src, i, curtok, words, colonp, seen, val) ==
    IF i > Len(src) THEN inet_pton6_end(words, colonp, seen, val)
    ELSE LET ch == src[i]
             d == HexIndex(ch)
         IN  IF d >= 0
             THEN IF seen + 1 > 4 THEN UV_EINVAL
                  ELSE inet_pton6_loop(src, i + 1, curtok, words, colonp, seen + 1, val * 16 + d)
             ELSE IF ch = ":"
             THEN IF seen = 0
                  THEN IF colonp >= 0 THEN UV_EINVAL
                       ELSE inet_pton6_loop(src, i + 1, i + 1, words, Len(words), 0, val)
                  ELSE IF i + 1 > Len(src) THEN UV_EINVAL
                  ELSE IF Len(words) + 1 > 8 THEN UV_EINVAL
                  ELSE inet_pton6_loop(src, i + 1, i + 1, Append(words, val), colonp, 0, 0)
             ELSE IF ch = "." /\ Len(words) + 2 <= 8
             THEN LET r == inet_pton4(SubSeq(src, curtok, Len(src)))
                  IN  IF r.status = 0
                      THEN inet_pton6_end(words \o <<r.bytes[1] * 256 + r.bytes[2],
                                                      r.bytes[3] * 256 + r.bytes[4]>>,
                                          colonp, 0, 0)
                      ELSE UV_EINVAL
             ELSE UV_EINVAL

\* inet_pton6: a leading ':' must begin "::".
inet_pton6(src) ==
    IF src # <<>> /\ src[1] = ":"
    THEN IF Len(src) < 2 \/ src[2] # ":" THEN UV_EINVAL
         ELSE inet_pton6_loop(src, 2, 2, <<>>, -1, 0, 0)
    ELSE inet_pton6_loop(src, 1, 1, <<>>, -1, 0, 0)

\* The bytes of the 16-bit groups, each most significant byte first.
RECURSIVE WordBytes(_)
WordBytes(words) ==
    IF words = <<>> THEN <<>>
    ELSE <<Head(words) \div 256, Head(words) % 256>> \o WordBytes(Tail(words))

\* The 16-bit groups of 16 address bytes.
BytesWords(b) == [i \in 1 .. 8 |-> b[2 * i - 1] * 256 + b[2 * i]]

\* Length of the run of zero groups of words that starts at index i.
RECURSIVE ZeroRun(_, _)
ZeroRun(words, i) == IF i > Len(words) \/ words[i] # 0 THEN 0 ELSE 1 + ZeroRun(words, i + 1)

\* inet_ntop6's best run: the first longest run of at least two zero groups,
\* as [base, len] (base 0 and len 0: none).
BestRun(words) ==
    LET starts == {i \in 1 .. 8 : ZeroRun(words, i) >= 2 /\ (i = 1 \/ words[i - 1] # 0)}
    IN  IF starts = {} THEN [base |-> 0, len |-> 0]
        ELSE LET b == CHOOSE i \in starts :
                          \A j \in starts : \/ ZeroRun(words, i) > ZeroRun(words, j)
                                            \/ ZeroRun(words, i) = ZeroRun(words, j) /\ i <= j
             IN  [base |-> b, len |-> ZeroRun(words, b)]

\* The text inet_ntop6 formats from group i on.
RECURSIVE Fmt6(_, _, _)
Fmt6(words, best, i) ==
    IF i > 8
    THEN IF best.len > 0 /\ best.base + best.len = 9 THEN <<":">> ELSE <<>>
    ELSE IF best.len > 0 /\ i >= best.base /\ i < best.base + best.len
    THEN (IF i = best.base THEN <<":">> ELSE <<>>) \o Fmt6(words, best, i + 1)
    ELSE IF i = 7 /\ best.len > 0 /\ best.base = 1
            /\ (best.len = 6 \/ (best.len = 7 /\ words[8] # 1)
                \/ (best.len = 5 /\ words[6] = 65535))
    THEN <<":">> \o Fmt4(WordBytes(SubSeq(words, 7, 8)))
    ELSE (IF i # 1 THEN <<":">> ELSE <<>>) \o Hex(words[i]) \o Fmt6(words, best, i + 1)

\* inet_ntop6(src, dst, size): the status and the buffer dst afterwards.
inet_ntop6(a, dst, size) ==
    LET tmp == Fmt6(BytesWords(a), BestRun(BytesWords(a)), 1)
    IN  IF Len(tmp) >= size
        THEN [status |-> UV_ENOSPC.status, dst |-> dst]
        ELSE [status |-> 0, dst |-> Strncpy(tmp, size)]

\* uv_ip6_addr(ip, port, &addr), for a text without zone index.
uv_ip6_addr(e, ip, port) ==
    LET sa0 == WithBytes(WithBytes(Zeros(28), 0, StoreU16(e, AF.IPv6)),
                         2, StoreU16(e, Htons(e, port % 65536)))
        r == inet_pton6(ip)
    IN  IF r.status = 0
        THEN [status |-> 0, sa |-> WithBytes(sa0, 8, WordBytes(r.words))]
        ELSE [status |-> r.status, sa |-> sa0]

\* uv_ip6_name(src, dst, size)
uv_ip6_name(sa, dst, size) == inet_ntop6(BytesAt(sa, 8, 16), dst, size)


(***************************************************************************)
(* details::IpTraits and details::address                                  *)
(***************************************************************************)

Families == {"IPv4", "IPv6"}

\* sockaddr_in and sockaddr_in6: size, and each member's <<offset, width>>.
Layout ==
    [IPv4 |-> [size |-> 16,
               members |-> [sin_family |-> <<0, 2>>, sin_port |-> <<2, 2>>,
                            sin_addr |-> <<4, 4>>, sin_zero |-> <<8, 8>>]],
     IPv6 |-> [size |-> 28,
               members |-> [sin6_family |-> <<0, 2>>, sin6_port |-> <<2, 2>>,
                            sin6_flowinfo |-> <<4, 4>>, sin6_addr |-> <<8, 16>>,
                            sin6_scope_id |-> <<24, 4>>]]]

\* IpTraits<IPv4>, IpTraits<IPv6>
IpTraits ==
    [IPv4 |-> [Type |-> "sockaddr_in", AddrFunc |-> "uv_ip4_addr", NameFunc |-> "uv_ip4_name"],
     IPv6 |-> [Type |-> "sockaddr_in6", AddrFunc |-> "uv_ip6_addr", NameFunc |-> "uv_ip6_name"]]

\* A call through an AddrFuncType pointer.
CallAddrFunc(fn, e, ip, port) ==
    IF fn = "uv_ip4_addr" THEN uv_ip4_addr(e, ip, port) ELSE uv_ip6_addr(e, ip, port)

\* A call through a NameFuncType pointer.
CallNameFunc(fn, sa, dst, size) ==
    IF fn = "uv_ip4_name" THEN uv_ip4_name(sa, dst, size) ELSE uv_ip6_name(sa, dst, size)

\* sizeof(ssto)
SizeofStorage == 128

\* Addr addr{}
DefaultAddr == [ip |-> <<>>, port |-> 0]

\* std::pair<std::string, unsigned int> addr{}
DefaultPair == [first |-> <<>>, second |-> 0]

\* reinterpret_cast<Addr&>(addr): the pair's storage read as {ip, port}. Both
\* types hold a std::string followed by an unsigned int, so the members are
\* read in place, first as ip and second as port.
ReinterpretAsAddr(p) == [ip |-> p.first, port |-> p.second]

\* reinterpret_cast<typename Traits::Type *>(&ssto): the leading bytes of the storage.
AsType(I, storage) == BytesAt(storage, 0, Layout[I].size)

\* Whether Traits::Type has a member of this name.
HasMember(I, member) == member \in DOMAIN Layout[I].members

\* aptr->member, as the bytes of the member.
Member(I, sa, member) ==
    BytesAt(sa, Layout[I].members[member][1], Layout[I].members[member][2])

\* Whether address<I>(aptr, len) can be instantiated: its body names
\* aptr->sin_port, so Traits::Type must have that member.
Instantiable(I) == HasMember(I, "sin_port")

AccessorOkIgnored(e) == TRUE

\* if(0 == err) in address(f, handle)
AccessorOk(e) == 0 = e

RenderOkIgnored(e) == TRUE

\* if(0 == err) in address(aptr, len)
RenderOk(e) == 0 = e

\* char name[len]
ScratchSize(l) == l

NameCapacityOfStorage(l) == SizeofStorage

\* the size argument of Traits::NameFunc(aptr, name, len)
NameCapacity(l) == l

NameSlotShared(t) == 1

\* name has automatic storage: every call has a buffer of its own.
NameSlot(t) == t

PairAfterNamePortAlways(e, I, status, old, buf, sa) ==
    [first |-> IF RenderOk(status) THEN StringOf(buf) ELSE old.first,
     second |-> Ntohs(e, LoadU16(e, Member(I, sa, "sin_port")))]

\* if(0 == err) { addr = { std::string{name}, ntohs(aptr->sin_port) }; }
PairAfterName(e, I, status, old, buf, sa) ==
    IF RenderOk(status)
    THEN [first |-> StringOf(buf),
          second |-> Ntohs(e, LoadU16(e, Member(I, sa, "sin_port")))]
    ELSE old

\* What a call that has not returned has for a result.
NoAddr == [ip |-> <<"-">>, port |-> -1]

NoObs == [offered |-> -1, nameCalls |-> 0, nameCap |-> -1, scratch |-> -1]

Calls == DOMAIN pc

\* Entry of address<I>(f, handle): the locals are set up.
Enter(t) ==
    /\ pc[t] = "start"
    /\ Instantiable(input[t].I)
    /\ len' = [len EXCEPT ![t] = SizeofStorage]
    /\ addr' = [addr EXCEPT ![t] = DefaultAddr]
    /\ pc' = [pc EXCEPT ![t] = "accessor"]
    /\ UNCHANGED <<endian, traits, input, ssto, err, pair, name, ierr, result, obs, fs, lastOp, prevOp, asBool, asType>>

\* address<I> with a Traits::Type that has no sin_port: no such function exists.
Reject(t) ==
    /\ pc[t] = "start"
    /\ ~Instantiable(input[t].I)
    /\ pc' = [pc EXCEPT ![t] = "ill_formed"]
    /\ UNCHANGED <<endian, traits, input, ssto, len, err, addr, pair, name, ierr, result, obs, fs, lastOp, prevOp, asBool, asType>>

\* int err = f(handle, &ssto, &len)
Accessor(t) ==
    /\ pc[t] = "accessor"
    /\ obs' = [obs EXCEPT ![t].offered = len[t]]
    /\ err' = [err EXCEPT ![t] = input[t].acc.err]
    /\ ssto' = [ssto EXCEPT ![t] = input[t].acc.sa]
    /\ len' = [len EXCEPT ![t] = input[t].acc.len]
    /\ pc' = [pc EXCEPT ![t] = "branch"]
    /\ UNCHANGED <<endian, traits, input, addr, pair, name, ierr, result, fs, lastOp, prevOp, asBool, asType>>

\* if(0 == err): on success address<I>(aptr, len) is entered.
Branch(t) ==
    /\ pc[t] = "branch"
    /\ IF AccessorOk(err[t])
       THEN /\ pair' = [pair EXCEPT ![t] = DefaultPair]
            /\ name' = [name EXCEPT ![NameSlot(t)] =
                            [i \in 1 .. ScratchSize(len[t]) |-> Indeterminate]]
            /\ obs' = [obs EXCEPT ![t].scratch = ScratchSize(len[t])]
            /\ pc' = [pc EXCEPT ![t] = "inner"]
       ELSE /\ pc' = [pc EXCEPT ![t] = "return"]
            /\ UNCHANGED <<pair, name, obs>>
    /\ UNCHANGED <<endian, traits, input, ssto, len, err, addr, ierr, result, fs, lastOp, prevOp, asBool, asType>>

\* int err = Traits::NameFunc(aptr, name, len)
Name(t) ==
    /\ pc[t] = "inner"
    /\ LET I == input[t].I
           r == CallNameFunc(traits[I].NameFunc, AsType(I, ssto[t]),
                             name[NameSlot(t)], NameCapacity(len[t]))
       IN  /\ ierr' = [ierr EXCEPT ![t] = r.status]
           /\ name' = [name EXCEPT ![NameSlot(t)] = r.dst]
    /\ obs' = [obs EXCEPT ![t].nameCalls = @ + 1, ![t].nameCap = NameCapacity(len[t])]
    /\ pc' = [pc EXCEPT ![t] = "named"]
    /\ UNCHANGED <<endian, traits, input, ssto, len, err, addr, pair, result, fs, lastOp, prevOp, asBool, asType>>

\* if(0 == err) { addr = { std::string{name}, ntohs(aptr->sin_port) }; }
Assign(t) ==
    /\ pc[t] = "named"
    /\ pair' = [pair EXCEPT ![t] =
                    PairAfterName(endian, input[t].I, ierr[t], pair[t],
                                  name[NameSlot(t)], AsType(input[t].I, ssto[t]))]
    /\ pc' = [pc EXCEPT ![t] = "inner_return"]
    /\ UNCHANGED <<endian, traits, input, ssto, len, err, addr, name, ierr, result, obs, fs, lastOp, prevOp, asBool, asType>>

\* return reinterpret_cast<Addr&>(addr); and addr = address<I>(aptr, len)
InnerReturn(t) ==
    /\ pc[t] = "inner_return"
    /\ addr' = [addr EXCEPT ![t] = ReinterpretAsAddr(pair[t])]
    /\ pc' = [pc EXCEPT ![t] = "return"]
    /\ UNCHANGED <<endian, traits, input, ssto, len, err, pair, name, ierr, result, obs, fs, lastOp, prevOp, asBool, asType>>

\* return addr
Return(t) ==
    /\ pc[t] = "return"
    /\ result' = [result EXCEPT ![t] = addr[t]]
    /\ pc' = [pc EXCEPT ![t] = "done"]
    /\ UNCHANGED <<endian, traits, input, ssto, len, err, addr, pair, name, ierr, obs, fs, lastOp, prevOp, asBool, asType>>

AddrNext ==
    \/ \E t \in Calls : Enter(t)
    \/ \E t \in Calls : Reject(t)
    \/ \E t \in Calls : Accessor(t)
    \/ \E t \in Calls : Branch(t)
    \/ \E t \in Calls : Name(t)
    \/ \E t \in Calls : Assign(t)
    \/ \E t \in Calls : InnerReturn(t)
    \/ \E t \in Calls : Return(t)

\* address<I>(f, handle) run from entry to return with nothing else running.
AddressAlone(e, in) ==
    IF ~AccessorOk(in.acc.err) THEN DefaultAddr
    ELSE LET sa == AsType(in.I, in.acc.sa)
             r == CallNameFunc(IpTraits[in.I].NameFunc, sa,
                               [i \in 1 .. ScratchSize(in.acc.len) |-> Indeterminate],
                               NameCapacity(in.acc.len))
         IN  ReinterpretAsAddr(PairAfterName(e, in.I, r.status, DefaultPair, r.dst, sa))


(***************************************************************************)
(* Inputs and specifications                                               *)
(***************************************************************************)

Endians == {"little", "big"}

\* How many ports beyond 0 the port samples step through.
MaxPortSamples == 2

\* Ports whose two bytes differ, and the ends of the range.
PortSamples == {(i * 8080) % 65536 : i \in 0 .. MaxPortSamples} \cup {443, 65535}

Dot == <<".">>

Join4(a, b, c, d) == a \o Dot \o b \o Dot \o c \o Dot \o d

\* Texts of one octet, well formed and not.
OctetTexts == {<<"0">>, <<"1">>, <<"1", "2", "7">>, <<"2", "5", "5">>, <<"2", "5", "6">>, <<"0", "1">>}

NotAnIp == <<"n", "o", "t", "-", "a", "n", "-", "i", "p">>

\* Candidate host texts per family, well formed and malformed.
HostTexts ==
    [IPv4 |-> {Join4(a, b, c, d) : a, b, c, d \in OctetTexts}
                  \cup {<<"1">> \o Dot \o <<"2">> \o Dot \o <<"3">>, NotAnIp, <<>>},
     IPv6 |-> {<<":", ":", "1">>, <<":", ":">>, <<"f", "e", "8", "0", ":", ":", "1", ":", "2">>,
               <<"0", ":", "0", ":", "0", ":", "0", ":", "0", ":", "0", ":", "0", ":", "1">>,
               NotAnIp}]

\* A few hosts for the cases that do not turn on the text.
HostSamples ==
    [IPv4 |-> {Join4(<<"1", "2", "7">>, <<"0">>, <<"0">>, <<"1">>),
               Join4(<<"0">>, <<"0">>, <<"0">>, <<"0">>),
               Join4(<<"2", "5", "5">>, <<"2", "5", "5">>, <<"2", "5", "5">>, <<"2", "5", "5">>)},
     IPv6 |-> {<<":", ":", "1">>}]

\* A sockaddr copied into the front of a sockaddr_storage.
Pad(sa) == sa \o Zeros(SizeofStorage - Len(sa))

\* A handle whose address was made by AddrFunc(host, port), and an accessor
\* that copies it out with its length (uv_tcp_getsockname and the like); the
\* accessor fails when no address could be made.
BoundInput(e, I, h, p) ==
    LET r == CallAddrFunc(IpTraits[I].AddrFunc, e, h, p)
    IN  [I |-> I, bound |-> TRUE, host |-> h, port |-> p, construct |-> r.status,
         acc |-> IF r.status = 0
                 THEN [err |-> 0, sa |-> Pad(r.sa), len |-> Layout[I].size]
                 ELSE [err |-> r.status, sa |-> Pad(r.sa), len |-> SizeofStorage]]

\* Lengths an accessor may write back.
LenSamples == {1, 7, 8, 10, 15, 16, 28, SizeofStorage}

\* Contents an accessor may leave in the storage.
BufferSamples(e) ==
    {Pad(uv_ip4_addr(e, h, p).sa) : h \in HostSamples.IPv4, p \in PortSamples}
        \cup {Pad(uv_ip6_addr(e, h, 443).sa) : h \in HostSamples.IPv6}
        \cup {[i \in 1 .. SizeofStorage |-> 255]}

\* An accessor's outcomes: on success a length of at least 1 (the length of
\* an address), on failure any length at all.
AccessorOutcomes(e) ==
    {[err |-> 0, sa |-> sa, len |-> l] : sa \in BufferSamples(e), l \in LenSamples}
        \cup {[err |-> UV_EINVAL.status, sa |-> sa, len |-> l] :
                  sa \in BufferSamples(e), l \in LenSamples \cup {-1, 0}}

\* Any accessor: any status, contents and length.
ArbitraryInputs(e) ==
    {[I |-> I, bound |-> FALSE, host |-> <<>>, port |-> 0, construct |-> 0, acc |-> a] :
        I \in Families, a \in AccessorOutcomes(e)}

RoundTripInputs(e) ==
    UNION {{BoundInput(e, I, h, p) : h \in HostTexts[I], p \in PortSamples} : I \in Families}

ConcInputs(e) ==
    {BoundInput(e, "IPv4", Join4(<<"1", "2", "7">>, <<"0">>, <<"0">>, <<"1">>), 8080),
     BoundInput(e, "IPv4", Join4(<<"1", "0">>, <<"0">>, <<"0">>, <<"2", "5", "5">>), 443),
     BoundInput(e, "IPv4", NotAnIp, 443),
     BoundInput(e, "IPv6", <<":", ":", "1">>, 443)}

\* Number of threads calling address<I>(f, handle) at once.
NumThreads == 2

\* The state before the calls of the threads T start; ins(e) are their inputs.
AddrInit(E, T, ins(_)) ==
    /\ \E e \in E : endian = e /\ input \in [T -> ins(e)]
    /\ traits = IpTraits
    /\ pc = [t \in T |-> "start"]
    /\ ssto = [t \in T |-> [i \in 1 .. SizeofStorage |-> Indeterminate]]
    /\ len = [t \in T |-> 0]
    /\ err = [t \in T |-> 0]
    /\ addr = [t \in T |-> NoAddr]
    /\ pair = [t \in T |-> DefaultPair]
    /\ name = [t \in T |-> <<>>]
    /\ ierr = [t \in T |-> 0]
    /\ result = [t \in T |-> NoAddr]
    /\ obs = [t \in T |-> NoObs]

NoInputs(e) == {}

\* One call with any accessor.
Init == FlagsInit /\ AddrInit(Endians, {1}, ArbitraryInputs)

Next == AddrNext

Spec == Init /\ [][Next]_vars

\* One call on a handle bound to a constructed address.
InitRoundTrip == FlagsInit /\ AddrInit(Endians, {1}, RoundTripInputs)

SpecRoundTrip == InitRoundTrip /\ [][AddrNext]_vars

\* Several calls at once.
InitConc == FlagsInit /\ AddrInit(Endians, 1 .. NumThreads, ConcInputs)

SpecConc == InitConc /\ [][AddrNext]_vars

\* Flags<E> alone: no call is made.
InitFlags == FlagsInit /\ AddrInit({"little"}, {}, NoInputs)

SpecFlags == InitFlags /\ [][FlagsNext]_vars


(***************************************************************************)
(* Properties                                                              *)
(***************************************************************************)

\* The accessor of call t has been invoked.
AccessorCalled(t) == pc[t] \notin {"start", "accessor", "ill_formed"}

\* Call t is over: it returned, or it could not be instantiated.
Finished(t) == pc[t] \in {"done", "ill_formed"}

\* The port a storage buffer holds in its bytes 2 and 3, most significant first.
PortOfBuffer(sa) == sa[3] * 256 + sa[4]

Loopback8080(e) == Pad(uv_ip4_addr(e, Join4(<<"1", "2", "7">>, <<"0">>, <<"0">>, <<"1">>), 8080).sa)

\* C1: when the accessor reports a nonzero status, address(f, handle) returns
\* the default Addr {empty host, port 0} whatever the accessor left in the
\* storage and in the length, and NameFunc is never called.
C1_AccessorFailureYieldsDefault ==
    \A t \in Calls :
        (AccessorCalled(t) /\ input[t].acc.err # 0) =>
            /\ obs[t].nameCalls = 0
            /\ pc[t] \notin {"inner", "named", "inner_return"}
            /\ pc[t] = "done" => result[t] = [ip |-> <<>>, port |-> 0]

\* A failed accessor that left a valid sockaddr_in and its length behind.
C1_Witness ==
    \E t \in Calls :
        /\ pc[t] = "done"
        /\ input[t].acc.err # 0
        /\ ssto[t] = Loopback8080(endian)
        /\ len[t] = Layout.IPv4.size

\* C2: when NameFunc returns a nonzero status, address(aptr, len) returns the
\* default Addr: the host is empty and the port is 0, whatever port the
\* storage holds and whatever is in the scratch buffer.
C2_RenderFailureYieldsDefault ==
    \A t \in Calls :
        (obs[t].nameCalls > 0 /\ ierr[t] # 0) =>
            /\ pc[t] = "inner_return" => pair[t] = [first |-> <<>>, second |-> 0]
            /\ pc[t] \in {"return", "done"} => addr[t] = [ip |-> <<>>, port |-> 0]
            /\ pc[t] = "done" => result[t] = [ip |-> <<>>, port |-> 0]

\* A failed render over a storage whose port field is not zero.
C2_Witness ==
    \E t \in Calls :
        /\ pc[t] = "done"
        /\ obs[t].nameCalls = 1
        /\ ierr[t] # 0
        /\ PortOfBuffer(ssto[t]) = 8080

\* C3: for a well-formed IPv4 host text h and a port p in 0..65535, a
\* sockaddr_in made by uv_ip4_addr(h, p) and resolved by address<IPv4> comes
\* back as Addr{h, p}.
C3_IPv4RoundTrip ==
    \A t \in Calls :
        (/\ Finished(t)
         /\ input[t].I = "IPv4"
         /\ input[t].bound
         /\ input[t].construct = 0
         /\ input[t].port \in 0 .. 65535) =>
            result[t] = [ip |-> input[t].host, port |-> input[t].port]

\* 127.0.0.1:8080 resolved on a little-endian host.
C3_Witness ==
    \E t \in Calls :
        /\ pc[t] = "done"
        /\ endian = "little"
        /\ input[t].I = "IPv4"
        /\ input[t].construct = 0
        /\ input[t].port = 8080
        /\ result[t] = [ip |-> <<"1", "2", "7", ".", "0", ".", "0", ".", "1">>, port |-> 8080]

\* C4: for a well-formed IPv6 host text h and a port p in 0..65535, a
\* sockaddr_in6 made by uv_ip6_addr(h, p) and resolved by address<IPv6> comes
\* back as Addr{h, p}, the port read from the sockaddr_in6's own port member.
C4_IPv6RoundTrip ==
    \A t \in Calls :
        (/\ Finished(t)
         /\ input[t].I = "IPv6"
         /\ input[t].bound
         /\ input[t].construct = 0
         /\ input[t].port \in 0 .. 65535) =>
            result[t] = [ip |-> input[t].host, port |-> input[t].port]

\* C5: the Addr address(f, handle) returns has an empty host exactly when the
\* accessor or NameFunc reported a nonzero status; when both report 0 the host
\* is not empty and the port is the storage's port in host byte order.
C5_EmptyHostIffFailure ==
    \A t \in Calls :
        pc[t] = "done" =>
            /\ (result[t].ip = <<>>) <=>
                   (input[t].acc.err # 0 \/ (obs[t].nameCalls > 0 /\ ierr[t] # 0))
            /\ (input[t].acc.err = 0 /\ obs[t].nameCalls > 0 /\ ierr[t] = 0) =>
                   /\ result[t].ip # <<>>
                   /\ result[t].port = PortOfBuffer(input[t].acc.sa)

\* Both statuses 0 over a well-formed sockaddr_in holding port 8080.
C5_Witness ==
    \E t \in Calls :
        /\ pc[t] = "done"
        /\ input[t].acc.err = 0
        /\ obs[t].nameCalls = 1
        /\ ierr[t] = 0
        /\ ssto[t] = Loopback8080(endian)
        /\ result[t].port = 8080

\* C6: calls of address(f, handle) running at once, in any interleaving, each
\* return what the call returns when it runs alone, and the IpTraits table is
\* never written.
C6_ConcurrentCallsAsAlone ==
    /\ traits = IpTraits
    /\ \A t \in Calls : pc[t] = "done" => result[t] = AddressAlone(endian, input[t])

\* Two calls that both resolved, to different hosts.
C6_Witness ==
    \E t, u \in Calls :
        /\ pc[t] = "done" /\ pc[u] = "done"
        /\ result[t].ip # <<>> /\ result[u].ip # <<>>
        /\ result[t].ip # result[u].ip

\* The set of bits of a bit pattern.
BitsOf(x) == {i \in 0 .. FlagBits : (x \div (2 ^ i)) % 2 = 1}

Disjoint(a, b) == BitsOf(a) \cap BitsOf(b) = {}

\* C7: for enumerators a, b with nonzero disjoint bit patterns, (Flags(a) | b) & a
\* has the underlying integer of Flags(a) and is true, and Flags(a) & b has the
\* underlying integer 0 and is false, with either overload of each operator.
C7_CombineIntersectDisjoint ==
    \A a, b \in EnumValues :
        (a # 0 /\ b # 0 /\ Disjoint(a, b)) =>
            /\ (/\ prevOp.op \in {"or_f", "or_e"}
                /\ prevOp.lhs.flags = a
                /\ prevOp.arg = b
                /\ lastOp.op \in {"and_f", "and_e"}
                /\ lastOp.arg = a) => (fs.flags = a /\ asBool)
            /\ (/\ lastOp.op \in {"and_f", "and_e"}
                /\ lastOp.lhs.flags = a
                /\ lastOp.arg = b) => (fs.flags = 0 /\ ~asBool)

\* (Flags(1) | 6) & 1
C7_Witness ==
    /\ prevOp = [op |-> "or_f", lhs |-> [flags |-> 1], arg |-> 6]
    /\ lastOp.op = "and_e"
    /\ lastOp.arg = 1
    /\ fs.flags = 1

\* C8: whatever constructions, combinations and intersections produced a
\* Flags object, its conversion to bool is true exactly when its underlying
\* integer is not zero; Flags() is false and Flags(a) is true for nonzero a.
C8_TruthValue ==
    /\ asBool <=> fs.flags # 0
    /\ lastOp.op = "default" => ~asBool
    /\ (lastOp.op = "ctor_e" /\ lastOp.arg # 0) => asBool

\* An intersection of a combination that left only bit 1 set.
C8_Witness ==
    /\ prevOp.op \in {"or_f", "or_e"}
    /\ lastOp.op \in {"and_f", "and_e"}
    /\ fs.flags = 2
    /\ asBool

\* C9: a Flags object rebuilt from its conversion to Type has the same
\* underlying integer, and Flags(r) converts back to r, for every r.
C9_RawRoundTrip ==
    /\ lastOp.op = "rebuild" => fs.flags = lastOp.lhs.flags
    /\ lastOp.op = "ctor_raw" => asType = lastOp.arg

\* A rebuilt object with every bit set.
C9_Witness ==
    /\ lastOp.op = "rebuild"
    /\ prevOp.op = "ctor_raw"
    /\ prevOp.arg = 2 ^ FlagBits - 1
    /\ fs.flags = 2 ^ FlagBits - 1

\* The text NameFunc renders for the sockaddr_in at the front of a storage.
RenderedIPv4(sa) == Fmt4(BytesAt(sa, 4, 4))

\* C10: the accessor is offered the full size of the storage; the length it
\* writes back is, unchanged, the size of the scratch buffer and the capacity
\* NameFunc is given, which is never more than the scratch buffer holds; an
\* address whose text and terminator do not fit in it resolves to the
\* default Addr.
C10_BufferSizing ==
    \A t \in Calls :
        /\ AccessorCalled(t) => obs[t].offered = Len(ssto[t])
        /\ obs[t].nameCalls > 0 =>
               /\ obs[t].scratch = input[t].acc.len
               /\ obs[t].nameCap = input[t].acc.len
               /\ obs[t].nameCap <= Len(name[t])
        /\ (/\ pc[t] = "done"
            /\ input[t].acc.err = 0
            /\ Len(RenderedIPv4(input[t].acc.sa)) + 1 > input[t].acc.len) =>
               result[t] = [ip |-> <<>>, port |-> 0]

\* 255.255.255.255 with a length of 15: one short of text and terminator.
C10_Witness ==
    \E t \in Calls :
        /\ pc[t] = "done"
        /\ input[t].acc.err = 0
        /\ obs[t].nameCalls = 1
        /\ Len(RenderedIPv4(ssto[t])) = 15
        /\ len[t] = 15
        /\ ierr[t] # 0

====
